---- MODULE Spec2Model ----
(***************************************************************************)
(* Verification model of the three scripts of the repository:              *)
(*   react16/react/render-dom.js  - fiber traversal driven by workLoop     *)
(*   task-splitting-example.js    - chunked work scheduler (scheduleWork)  *)
(*                                  and expiring task queue (scheduleTask) *)
(*   unnamed/part_000             - the recursive render, as an operator   *)
(* The variable `script` says which script is loaded in the page; each     *)
(* script has its own module state and its own host callbacks.             *)
(***************************************************************************)
EXTENDS Integers, Sequences, FiniteSets, TLC

\* ------------------------------------------------------------------ bounds
MaxNodes == 4
MaxRenders == 2
MaxK == 5
MaxTasks == 3
MaxTime == 20
TickMs == 9
MaxPushes == 2
MaxEnd == 4
MaxChunk == 3
MaxCreated == 3

VARIABLES script, now,
          \* render-dom.js
          nextUnitOfWork, fibers, dom, idleRequests,
          pc, shouldYield, deadlineK, sliceUnits,
          visitLog, attachLog, renders, uncaught,
          \* task-splitting-example.js, expiring task queue
          takes, isPerformingTash, port, raf, qpc, currentTime,
          subs, executed, deferred,
          \* task-splitting-example.js, chunked work scheduler
          tasks, isPerformingTask, wport, wraf, wpc, frameStartTime, pushes,
          \* task-splitting-example.js, a call of one of the createTasks functions
          cfn, cstart, cend, csize, currentIndex, clist, cpc

renderVars == <<nextUnitOfWork, fibers, dom, idleRequests, pc, shouldYield,
                deadlineK, sliceUnits, visitLog, attachLog, renders, uncaught>>

queueVars == <<takes, isPerformingTash, port, raf, qpc, currentTime, subs, executed,
               deferred>>

workVars == <<tasks, isPerformingTask, wport, wraf, wpc, frameStartTime, pushes>>

createVars == <<cfn, cstart, cend, csize, currentIndex, clist, cpc>>

vars == <<script, now, renderVars, queueVars, workVars, createVars>>

\* ------------------------------------------------- element trees (inputs)
Null == 0
Container == 1

\* An element descriptor {type, props: {id, children}}.  The id property is
\* the path of child indices from the root element, so every element of a
\* tree carries a distinct attribute.
Element(path, kids) ==
    [type  |-> IF kids = <<>> THEN "TEXT_ELEMENT" ELSE "div",
     props |-> [id |-> path, children |-> kids]]

RECURSIVE TreesOfSize(_, _), Forests(_, _, _)
TreesOfSize(n, path) ==
    { Element(path, kids) : kids \in Forests(n - 1, path, 1) }

Forests(n, path, idx) ==
    IF n = 0 THEN { <<>> }
    ELSE UNION { { <<t>> \o rest : t \in TreesOfSize(k, Append(path, idx)),
                                    rest \in Forests(n - k, path, idx + 1) }
                 : k \in 1..n }

Trees == UNION { TreesOfSize(n, <<>>) : n \in 1..MaxNodes }

\* The trees in which one element descriptor has no type property ("").
RECURSIVE UntypedVariants(_)
UntypedVariants(el) ==
    { [el EXCEPT !.type = ""] }
    \cup UNION { { [el EXCEPT !.props.children[i] = v] :
                     v \in UntypedVariants(el.props.children[i]) }
                 : i \in 1..Len(el.props.children) }

MalformedTrees == UNION { UntypedVariants(t) : t \in Trees }

RECURSIVE Size(_), SizeAll(_)
Size(el) == 1 + SizeAll(el.props.children)
SizeAll(els) == IF els = <<>> THEN 0 ELSE Size(Head(els)) + SizeAll(Tail(els))

\* Depth-first pre-order listing of the element ids of a tree.
RECURSIVE PreOrder(_), PreOrderAll(_)
PreOrder(el) == <<el.props.id>> \o PreOrderAll(el.props.children)
PreOrderAll(els) ==
    IF els = <<>> THEN <<>> ELSE PreOrder(Head(els)) \o PreOrderAll(Tail(els))

Front(s) == SubSeq(s, 1, Len(s) - 1)
IsPrefix(s, t) == Len(s) <= Len(t) /\ SubSeq(t, 1, Len(s)) = s

\* ---------------------------------------------------------- host DOM
ContainerNode ==
    [nodeType |-> "element", tagName |-> "container", attrs |-> [id |-> <<0>>],
     parentNode |-> Null, childNodes |-> <<>>]

RemoveFrom(s, x) == SelectSeq(s, LAMBDA y : y # x)

\* parent.appendChild(child): a node that already has a parent is moved.
AppendChild(d, p, c) ==
    LET old == d[c].parentNode
        d1  == IF old = Null THEN d
               ELSE [d EXCEPT ![old].childNodes = RemoveFrom(@, c)]
    IN  [d1 EXCEPT ![p].childNodes = Append(@, c), ![c].parentNode = p]

\* ------------------------------------------------------- render-dom.js
\* createDom(fiber): a text node for TEXT_ELEMENT, otherwise an element of
\* the fiber's type; every property except children is copied to the node.
\* A fiber without a type ("" here) reaches document.createElement(undefined),
\* which converts its argument to the string "undefined" and returns an
\* element of that name.
CreateDom(fiber) ==
    [nodeType   |-> IF fiber.type = "TEXT_ELEMENT" THEN "text" ELSE "element",
     tagName    |-> IF fiber.type = "TEXT_ELEMENT" THEN "#text"
                    ELSE IF fiber.type = "" THEN "undefined"
                    ELSE fiber.type,
     attrs      |-> [k \in (DOMAIN fiber.props) \ {"children"} |-> fiber.props[k]],
     parentNode |-> Null,
     childNodes |-> <<>>]

\* The object literal of the while loop of performUnitOfWork.
NewFiber(element, parent) ==
    [type |-> element.type, props |-> element.props, parent |-> parent,
     child |-> Null, sibling |-> Null, dom |-> Null]

\* Variant of the child loop that links the children back to front.
LinkChildren_Reversed(fs, f) ==
    LET elements == fs[f].props.children
        base     == Len(fs)
        created  == [i \in 1..Len(elements) |->
                        [type |-> elements[i].type, props |-> elements[i].props,
                         parent |-> f, child |-> Null,
                         sibling |-> IF i > 1 THEN base + i - 1 ELSE Null,
                         dom |-> Null]]
        fs1      == fs \o created
    IN  IF Len(elements) = 0 THEN fs
        ELSE [fs1 EXCEPT ![f].child = base + Len(elements)]

\* Variant of the child loop that never sets a sibling link.
LinkChildren_NoSibling(fs, f) ==
    LET elements == fs[f].props.children
        base     == Len(fs)
        created  == [i \in 1..Len(elements) |-> NewFiber(elements[i], f)]
        fs1      == fs \o created
    IN  IF Len(elements) = 0 THEN fs
        ELSE [fs1 EXCEPT ![f].child = base + 1]

\* Lines 56-80: one new fiber per child element, the first linked as
\* fiber.child and each later one as the previous one's sibling (the test
\* `else if (element)` is true of every element descriptor).
LinkChildren(fs, f) ==
    LET elements == fs[f].props.children
        base     == Len(fs)
        created  == [i \in 1..Len(elements) |->
                        [NewFiber(elements[i], f) EXCEPT
                            !.sibling = IF i < Len(elements) THEN base + i + 1 ELSE Null]]
        fs1      == fs \o created
    IN  IF Len(elements) = 0 THEN fs
        ELSE [fs1 EXCEPT ![f].child = base + 1]

\* Variant of the upward walk that looks at the fiber's own sibling only.
NextUp_NoClimb(fs, f) ==
    IF f = Null THEN Null ELSE fs[f].sibling

\* Lines 86-96: walk up through parent until a sibling is found.
RECURSIVE NextUp(_, _)
NextUp(fs, f) ==
    IF f = Null THEN Null
    ELSE IF fs[f].sibling # Null THEN fs[f].sibling
    ELSE NextUp(fs, fs[f].parent)

\* performUnitOfWork(fiber): the heap, the DOM and the host call trace after
\* the call, and the returned next fiber.
PerformUnitOfWork(fs, d, log, f) ==
    LET needDom == fs[f].dom = Null
        d1      == IF needDom THEN Append(d, CreateDom(fs[f])) ELSE d
        fs1     == IF needDom THEN [fs EXCEPT ![f].dom = Len(d1)] ELSE fs
        par     == fs1[f].parent
        d2      == IF par # Null THEN AppendChild(d1, fs1[par].dom, fs1[f].dom) ELSE d1
        log1    == IF par # Null
                   THEN Append(log, [parent |-> fs1[par].dom, child |-> fs1[f].dom])
                   ELSE log
        fs2     == LinkChildren(fs1, f)
    IN  [fibers |-> fs2, dom |-> d2, attachLog |-> log1,
         next |-> IF fs2[f].child # Null THEN fs2[f].child ELSE NextUp(fs2, f)]

\* Variant of the call that starts over from the root when given no fiber.
CallPerformUnitOfWork_Resume(fs, d, log, f) ==
    IF f = Null
    THEN [r |-> PerformUnitOfWork(fs, d, log, 1), error |-> ""]
    ELSE [r |-> PerformUnitOfWork(fs, d, log, f), error |-> ""]

\* A call performUnitOfWork(fiber) with whatever the caller holds: given
\* null or undefined, line 49 reads fiber.dom and throws a TypeError before
\* anything is changed.
CallPerformUnitOfWork(fs, d, log, f) ==
    IF f = Null
    THEN [r |-> [fibers |-> fs, dom |-> d, attachLog |-> log, next |-> Null],
          error |-> "TypeError"]
    ELSE [r |-> PerformUnitOfWork(fs, d, log, f), error |-> ""]

\* render(element, container): the seeded root becomes the next unit of work.
\* The fibers of an earlier traversal are no longer referenced by the module
\* and leave the heap; the nodes already attached stay in the container.
RootFiber(element, container) ==
    [type |-> "", props |-> [children |-> <<element>>], parent |-> Null,
     child |-> Null, sibling |-> Null, dom |-> container]

\* Variant of render that leaves a pending traversal in place.
Render_KeepPending(element) ==
    /\ script = "render-dom"
    /\ pc = "idle"
    /\ renders < MaxRenders
    /\ renders' = renders + 1
    /\ IF nextUnitOfWork # Null
       THEN UNCHANGED <<fibers, nextUnitOfWork, visitLog, attachLog>>
       ELSE /\ fibers' = << RootFiber(element, Container) >>
            /\ nextUnitOfWork' = 1
            /\ visitLog' = <<>>
            /\ attachLog' = <<>>
    /\ UNCHANGED <<script, now, dom, idleRequests, pc, shouldYield, deadlineK, sliceUnits,
                   uncaught>>
    /\ UNCHANGED <<queueVars, workVars, createVars>>

Render(element) ==
    /\ script = "render-dom"
    /\ pc = "idle"
    /\ renders < MaxRenders
    /\ renders' = renders + 1
    /\ fibers' = << RootFiber(element, Container) >>
    /\ nextUnitOfWork' = 1
    /\ visitLog' = <<>>
    /\ attachLog' = <<>>
    /\ UNCHANGED <<script, now, dom, idleRequests, pc, shouldYield, deadlineK, sliceUnits,
                   uncaught>>
    /\ UNCHANGED <<queueVars, workVars, createVars>>

\* Variant of the while condition that never looks at shouldYield.
LoopCondition_IgnoreYield(next, yield) == next # Null

\* The while condition of workLoop (line 34).
LoopCondition(next, yield) == next # Null /\ ~yield

\* Variant of workLoop that asks the deadline before the first unit.
InitialShouldYield_AskFirst(k) == k <= 1

\* Line 33: let shouldYield = false, whatever the deadline says on entry.
InitialShouldYield(k) == FALSE

\* The host runs the idle callback registered by requestIdleCallback(workLoop)
\* with a deadline whose timeRemaining() is below 1 from its k-th call on.
\* workLoop starts: shouldYield = false.
WorkLoopEnter(k) ==
    /\ pc' = "loop"
    /\ shouldYield' = InitialShouldYield(k)
    /\ deadlineK' = k
    /\ sliceUnits' = 0
    /\ UNCHANGED <<script, now, nextUnitOfWork, fibers, dom, visitLog, attachLog, renders,
                   uncaught>>
    /\ UNCHANGED <<queueVars, workVars, createVars>>

IdleCallback ==
    /\ script = "render-dom"
    /\ pc = "idle"
    /\ idleRequests > 0
    /\ idleRequests' = idleRequests - 1
    /\ \E k \in 1..MaxK : WorkLoopEnter(k)

\* One iteration of the while loop of workLoop.
WorkLoopStep ==
    /\ script = "render-dom"
    /\ pc = "loop"
    /\ LoopCondition(nextUnitOfWork, shouldYield)
    /\ LET r == PerformUnitOfWork(fibers, dom, attachLog, nextUnitOfWork)
       IN  /\ fibers' = r.fibers
           /\ dom' = r.dom
           /\ attachLog' = r.attachLog
           /\ nextUnitOfWork' = r.next
    /\ visitLog' = Append(visitLog, nextUnitOfWork)
    /\ sliceUnits' = sliceUnits + 1
    /\ shouldYield' = (sliceUnits + 1 >= deadlineK)
    /\ UNCHANGED <<script, now, idleRequests, pc, deadlineK, renders, uncaught>>
    /\ UNCHANGED <<queueVars, workVars, createVars>>

\* The while condition is false: workLoop returns and its locals are gone.
WorkLoopReturn ==
    /\ script = "render-dom"
    /\ pc = "loop"
    /\ ~LoopCondition(nextUnitOfWork, shouldYield)
    /\ pc' = "idle"
    /\ shouldYield' = FALSE
    /\ deadlineK' = 1
    /\ sliceUnits' = 0
    /\ UNCHANGED <<script, now, nextUnitOfWork, fibers, dom, idleRequests,
                   visitLog, attachLog, renders, uncaught>>
    /\ UNCHANGED <<queueVars, workVars, createVars>>

\* ------------------------------------------ unnamed/part_000: render
\* Lines 2-6: the node of an element, built as createDom builds it.
NaiveDom(element) ==
    [nodeType   |-> IF element.type = "TEXT_ELEMENT" THEN "text" ELSE "element",
     tagName    |-> IF element.type = "TEXT_ELEMENT" THEN "#text"
                    ELSE IF element.type = "" THEN "undefined"
                    ELSE element.type,
     attrs      |-> [k \in (DOMAIN element.props) \ {"children"} |-> element.props[k]],
     parentNode |-> Null,
     childNodes |-> <<>>]

\* The recursive render(element, container): the node is created, every
\* child is rendered into it (line 9), then it is appended to the container
\* (line 12).  The result is the DOM and the trace of appendChild calls.
RECURSIVE NaiveRender(_, _, _, _), NaiveRenderAll(_, _, _, _)
NaiveRenderAll(d, log, els, container) ==
    IF els = <<>> THEN [dom |-> d, log |-> log]
    ELSE LET r == NaiveRender(d, log, Head(els), container)
         IN  NaiveRenderAll(r.dom, r.log, Tail(els), container)

\* Variant that renders the children into the container of their parent.
NaiveRender_Flat(d, log, element, container) ==
    LET d1 == Append(d, NaiveDom(element))
        h  == Len(d1)
        r  == NaiveRenderAll(d1, log, element.props.children, container)
    IN  [dom |-> AppendChild(r.dom, container, h),
         log |-> Append(r.log, [parent |-> container, child |-> h])]

NaiveRender(d, log, element, container) ==
    LET d1 == Append(d, NaiveDom(element))
        h  == Len(d1)
        r  == NaiveRenderAll(d1, log, element.props.children, h)
    IN  [dom |-> AppendChild(r.dom, container, h),
         log |-> Append(r.log, [parent |-> container, child |-> h])]

\* Module load: nextUnitOfWork = null and requestIdleCallback(workLoop).
InitRender ==
    /\ nextUnitOfWork = Null
    /\ fibers = <<>>
    /\ dom = << ContainerNode >>
    /\ idleRequests = 1
    /\ pc = "idle"
    /\ shouldYield = FALSE
    /\ deadlineK = 1
    /\ sliceUnits = 0
    /\ visitLog = <<>>
    /\ attachLog = <<>>
    /\ renders = 0
    /\ uncaught = ""

\* ------------------------------------------------------------ the clock
\* performance.now(): time passes between any two steps of the scripts.
Tick ==
    /\ now + TickMs <= MaxTime
    /\ now' = now + TickMs
    /\ UNCHANGED <<script, renderVars, queueVars, workVars, createVars>>

\* ------------------------- task-splitting-example.js: expiring task queue
\* A task callback is known by the number of its submission.  What the
\* callback does when invoked is the caller's choice: return, throw, or
\* call scheduleTask itself.  subs records the submissions, executed the
\* callbacks invoked, in order, and deferred the tasks put back at least once.
Kinds == {"plain", "throws", "reentrant"}
Delays == {0, 2 * TickMs}

\* Variant of the test that runs a task only after its timeout has passed.
Due_Strict(t, timeout) == t > timeout

\* Line 299: the task is run when the current time has reached its timeout.
Due(t, timeout) == t >= timeout

\* Variants of the deferral: back at the front of the queue, or dropped.
Defer_Front(q, entry) == <<entry>> \o q

Defer_Drop(q, entry) == q

\* Line 304: a task that is not run is put back at the end of the queue.
Defer(q, entry) == Append(q, entry)

\* Line 294: the frame budget is 1000 / 60 ms.
InBudget(t, start) == (t - start) * 60 < 1000

\* Variant of the end of the pass that never requests another frame.
AfterLoop_NoRequest(q, flag, frames) ==
    IF Len(q) > 0 THEN [flag |-> flag, raf |-> frames]
    ELSE [flag |-> FALSE, raf |-> frames]

\* Lines 309-316: after the loop, another frame is requested when tasks
\* remain, otherwise the flag is cleared.
AfterLoop(q, flag, frames) ==
    IF Len(q) > 0 THEN [flag |-> flag, raf |-> frames + 1]
    ELSE [flag |-> FALSE, raf |-> frames]

\* Variant of scheduleTask that posts the message whatever the flag says.
ScheduleTaskOp_AlwaysPost(q, flag, posted, task, timeout) ==
    [takes |-> Append(q, [task |-> task, timeout |-> timeout]),
     flag  |-> TRUE,
     port  |-> posted + 1]

\* Lines 263-278 of scheduleTask, on the queue state (q, flag, posted).
ScheduleTaskOp(q, flag, posted, task, timeout) ==
    [takes |-> Append(q, [task |-> task, timeout |-> timeout]),
     flag  |-> TRUE,
     port  |-> IF ~flag THEN posted + 1 ELSE posted]

ScheduleTask(timeout, kind) ==
    /\ script = "task-queue"
    /\ qpc = "idle"
    /\ Len(subs) < MaxTasks
    /\ timeout <= MaxTime
    /\ LET r == ScheduleTaskOp(takes, isPerformingTash, port, Len(subs) + 1, timeout)
       IN  /\ takes' = r.takes
           /\ isPerformingTash' = r.flag
           /\ port' = r.port
    /\ subs' = Append(subs, [timeout |-> timeout, kind |-> kind, at |-> now,
                             inside |-> FALSE])
    /\ UNCHANGED <<script, now, raf, qpc, currentTime, executed, deferred,
                   renderVars, workVars, createVars>>

\* Line 324: channel.port1.onmessage requests an animation frame.
OnMessage ==
    /\ script = "task-queue"
    /\ qpc = "idle"
    /\ port > 0
    /\ port' = port - 1
    /\ raf' = raf + 1
    /\ UNCHANGED <<script, now, takes, isPerformingTash, qpc, currentTime, subs,
                   executed, deferred, renderVars, workVars, createVars>>

\* The host runs the animation frame callback performTask(currentTime).
PerformTaskEnter ==
    /\ script = "task-queue"
    /\ qpc = "idle"
    /\ raf > 0
    /\ raf' = raf - 1
    /\ currentTime' = now
    /\ qpc' = "test"
    /\ UNCHANGED <<script, now, takes, isPerformingTash, port, subs, executed,
                   deferred, renderVars, workVars, createVars>>

\* Line 294, the while condition; when it is false, lines 309-316.
PerformTaskTest ==
    /\ script = "task-queue"
    /\ qpc = "test"
    /\ IF Len(takes) > 0 /\ InBudget(now, currentTime)
       THEN /\ qpc' = "body"
            /\ UNCHANGED <<raf, isPerformingTash>>
       ELSE /\ qpc' = "idle"
            /\ raf' = AfterLoop(takes, isPerformingTash, raf).raf
            /\ isPerformingTash' = AfterLoop(takes, isPerformingTash, raf).flag
    /\ UNCHANGED <<script, now, takes, port, currentTime, subs, executed,
                   deferred, renderVars, workVars, createVars>>

\* Lines 296-305, the body of the while loop: the front task is taken off
\* the queue and run or put back.  A callback that throws ends performTask
\* at once; a reentrant callback may call scheduleTask for a new task.
PerformTaskBodyK(spawnKinds) ==
    /\ script = "task-queue"
    /\ qpc = "body"
    /\ LET entry == Head(takes)
           rest  == Tail(takes)
           kind  == subs[entry.task].kind
       IN  IF Due(now, entry.timeout)
           THEN /\ executed' = Append(executed, entry.task)
                /\ UNCHANGED deferred
                /\ qpc' = IF kind = "throws" THEN "idle" ELSE "test"
                /\ \/ /\ takes' = rest
                      /\ UNCHANGED <<isPerformingTash, port, subs>>
                   \/ /\ kind = "reentrant"
                      /\ Len(subs) < MaxTasks
                      /\ \E d \in Delays, k \in spawnKinds :
                            /\ now + d <= MaxTime
                            /\ LET r == ScheduleTaskOp(rest, isPerformingTash, port,
                                                       Len(subs) + 1, now + d)
                               IN  /\ takes' = r.takes
                                   /\ isPerformingTash' = r.flag
                                   /\ port' = r.port
                            /\ subs' = Append(subs, [timeout |-> now + d, kind |-> k,
                                                     at |-> now, inside |-> TRUE])
           ELSE /\ takes' = Defer(rest, entry)
                /\ deferred' = deferred \cup {entry.task}
                /\ qpc' = "test"
                /\ UNCHANGED <<isPerformingTash, port, subs, executed>>
    /\ UNCHANGED <<script, now, raf, currentTime, renderVars, workVars, createVars>>

PerformTaskBody == PerformTaskBodyK(Kinds)

\* Module load of the queue script, before the test calls of lines 327-329.
InitQueue ==
    /\ takes = <<>>
    /\ isPerformingTash = FALSE
    /\ port = 0
    /\ raf = 0
    /\ qpc = "idle"
    /\ currentTime = 0
    /\ subs = <<>>
    /\ executed = <<>>
    /\ deferred = {}

NextQueue ==
    \/ \E d \in Delays, k \in Kinds : ScheduleTask(now + d, k)
    \/ OnMessage
    \/ PerformTaskEnter
    \/ PerformTaskTest
    \/ PerformTaskBody
    \/ Tick

\* --------------------- task-splitting-example.js: chunked work scheduler
CHUNK_SIZE == 1000
FRAME_TIME == 16
ITEMS_PER_CHUNK == 50
BATCH_SIZE == 1000

\* Variant of Math.min that returns its first argument.
Min_First(a, b) == a

Min(a, b) == IF a <= b THEN a ELSE b

\* createTasksByChunk(start, end, chunkSize): one task per chunk, which
\* processes the numbers chunkStart..chunkEnd.
RECURSIVE ChunksFrom(_, _, _)
ChunksFrom(i, end, chunkSize) ==
    IF i > end THEN <<>>
    ELSE << [fn |-> "chunk", chunkStart |-> i,
             chunkEnd |-> Min(i + chunkSize - 1, end)] >>
         \o ChunksFrom(i + chunkSize, end, chunkSize)

CreateTasksByChunk(start, end, chunkSize) == ChunksFrom(start, end, chunkSize)

\* Lines 30-36: the numbers a chunk task processes when it is run.
ChunkNumbers(task) == task.chunkStart .. task.chunkEnd

\* A call createTasksByChunk(start, end, chunkSize) and the list it returns.
CallCreateTasksByChunk(start, end, chunkSize) ==
    /\ script = "task-splitting"
    /\ cpc = "idle"
    /\ cfn' = "createTasksByChunk"
    /\ cstart' = start
    /\ cend' = end
    /\ csize' = chunkSize
    /\ clist' = CreateTasksByChunk(start, end, chunkSize)
    /\ cpc' = "returned"
    /\ UNCHANGED <<script, now, currentIndex, renderVars, queueVars, workVars>>

\* Lines 50-51 and 83-85: a call createTasksByTime(start, end) or
\* createAdaptiveTasks(start, end) sets currentIndex = start, tasks = [] and
\* reaches the while loop.
CallCreate(fn, start, end) ==
    /\ script = "task-splitting"
    /\ cpc = "idle"
    /\ cfn' = fn
    /\ cstart' = start
    /\ cend' = end
    /\ currentIndex' = start
    /\ clist' = <<>>
    /\ cpc' = "test"
    /\ UNCHANGED <<script, now, csize, renderVars, queueVars, workVars>>

CallCreateTasksByTime(start, end) == CallCreate("createTasksByTime", start, end)

CallCreateAdaptiveTasks(start, end) == CallCreate("createAdaptiveTasks", start, end)

\* Lines 53 and 87, while (currentIndex <= end); when the condition is false
\* the function returns the list (lines 75 and 119).
CreateLoopTest ==
    /\ script = "task-splitting"
    /\ cpc = "test"
    /\ cpc' = IF currentIndex <= cend THEN "push" ELSE "returned"
    /\ UNCHANGED <<script, now, cfn, cstart, cend, csize, currentIndex, clist,
                   renderVars, queueVars, workVars>>

\* Lines 54-73 and 88-117, the loop body: tasks.push of a closure.  The
\* closure is created, not called; currentIndex and adaptiveChunkSize are
\* assigned only inside the closure, so the body changes neither.  A list of
\* MaxCreated entries stands for one of MaxCreated entries or more.
CreateLoopPush ==
    /\ script = "task-splitting"
    /\ cpc = "push"
    /\ clist' = IF Len(clist) < MaxCreated THEN Append(clist, [fn |-> cfn]) ELSE clist
    /\ cpc' = "test"
    /\ UNCHANGED <<script, now, cfn, cstart, cend, csize, currentIndex,
                   renderVars, queueVars, workVars>>

InitCreate ==
    /\ cfn = ""
    /\ cstart = 0
    /\ cend = 0
    /\ csize = 0
    /\ currentIndex = 0
    /\ clist = <<>>
    /\ cpc = "idle"

NextCreate ==
    \/ \E start \in 1..MaxEnd, end \in 1..MaxEnd, chunkSize \in 1..MaxChunk :
            CallCreateTasksByChunk(start, end, chunkSize)
    \/ \E start \in 1..MaxEnd, end \in 1..MaxEnd : CallCreateTasksByTime(start, end)
    \/ \E start \in 1..MaxEnd, end \in 1..MaxEnd : CallCreateAdaptiveTasks(start, end)
    \/ CreateLoopTest
    \/ CreateLoopPush

\* The loops of renderLargeList and processLargeDataset: one task per slice
\* items.slice(i, i + size) of a list of n items.
RECURSIVE SlicesFrom(_, _, _, _)
SlicesFrom(fn, i, n, size) ==
    IF ~(i < n) THEN <<>>
    ELSE << [fn |-> fn, chunkStart |-> i, chunkEnd |-> Min(i + size, n)] >>
         \o SlicesFrom(fn, i + size, n, size)

ItemCounts == {0, 1, ITEMS_PER_CHUNK + 1}

RenderLargeList(n) ==
    /\ script = "task-splitting"
    /\ wpc = "idle"
    /\ pushes < MaxPushes
    /\ pushes' = pushes + 1
    /\ tasks' = tasks \o SlicesFrom("renderList", 0, n, ITEMS_PER_CHUNK)
    /\ UNCHANGED <<script, now, isPerformingTask, wport, wraf, wpc, frameStartTime,
                   renderVars, queueVars, createVars>>

ProcessLargeDataset(n) ==
    /\ script = "task-splitting"
    /\ wpc = "idle"
    /\ pushes < MaxPushes
    /\ pushes' = pushes + 1
    /\ tasks' = tasks \o SlicesFrom("processData", 0, n, BATCH_SIZE)
    /\ UNCHANGED <<script, now, isPerformingTask, wport, wraf, wpc, frameStartTime,
                   renderVars, queueVars, createVars>>

\* Lines 145-150 of scheduleWork, on (flag, posted).
ScheduleWorkOp(flag, posted) ==
    [flag |-> TRUE, port |-> IF ~flag THEN posted + 1 ELSE posted]

ScheduleWork ==
    /\ script = "task-splitting"
    /\ wpc = "idle"
    /\ isPerformingTask' = ScheduleWorkOp(isPerformingTask, wport).flag
    /\ wport' = ScheduleWorkOp(isPerformingTask, wport).port
    /\ UNCHANGED <<script, now, tasks, wraf, wpc, frameStartTime, pushes,
                   renderVars, queueVars, createVars>>

\* Lines 153-155: channel.port1.onmessage requests an animation frame.
WorkOnMessage ==
    /\ script = "task-splitting"
    /\ wpc = "idle"
    /\ wport > 0
    /\ wport' = wport - 1
    /\ wraf' = wraf + 1
    /\ UNCHANGED <<script, now, tasks, isPerformingTask, wpc, frameStartTime, pushes,
                   renderVars, queueVars, createVars>>

\* Line 124: frameStartTime = currentTime || performance.now().
FrameStart(ct, t) == IF ct # 0 THEN ct ELSE t

WorkPerformEnter ==
    /\ script = "task-splitting"
    /\ wpc = "idle"
    /\ wraf > 0
    /\ wraf' = wraf - 1
    /\ frameStartTime' = FrameStart(now, now)
    /\ wpc' = "test"
    /\ UNCHANGED <<script, now, tasks, isPerformingTask, wport, pushes,
                   renderVars, queueVars, createVars>>

\* Lines 127-128, the while condition; when it is false, lines 133-141.
WorkPerformTest ==
    /\ script = "task-splitting"
    /\ wpc = "test"
    /\ IF Len(tasks) > 0 /\ now - frameStartTime < FRAME_TIME
       THEN /\ wpc' = "body"
            /\ UNCHANGED <<wraf, isPerformingTask>>
       ELSE /\ wpc' = "idle"
            /\ IF Len(tasks) > 0
               THEN wraf' = wraf + 1 /\ UNCHANGED isPerformingTask
               ELSE isPerformingTask' = FALSE /\ UNCHANGED wraf
    /\ UNCHANGED <<script, now, tasks, wport, frameStartTime, pushes,
                   renderVars, queueVars, createVars>>

\* Lines 129-130: the front task is taken off the queue and run.
WorkPerformBody ==
    /\ script = "task-splitting"
    /\ wpc = "body"
    /\ tasks' = Tail(tasks)
    /\ wpc' = "test"
    /\ UNCHANGED <<script, now, isPerformingTask, wport, wraf, frameStartTime, pushes,
                   renderVars, queueVars, createVars>>

\* Module load: line 159 fills the queue; scheduleWork is not called.
InitWork ==
    /\ tasks = CreateTasksByChunk(1, 100000, 2000)
    /\ isPerformingTask = FALSE
    /\ wport = 0
    /\ wraf = 0
    /\ wpc = "idle"
    /\ frameStartTime = 0
    /\ pushes = 0

NextWork ==
    \/ \E n \in ItemCounts : RenderLargeList(n)
    \/ \E n \in ItemCounts : ProcessLargeDataset(n)
    \/ ScheduleWork
    \/ WorkOnMessage
    \/ WorkPerformEnter
    \/ WorkPerformTest
    \/ WorkPerformBody
    \/ Tick

\* ------------------------------------------------------- specifications

InitAll == now = 0 /\ InitRender /\ InitQueue /\ InitWork /\ InitCreate

Init == script = "render-dom" /\ InitAll

Next ==
    \/ \E el \in Trees : Render(el)
    \/ IdleCallback
    \/ WorkLoopStep
    \/ WorkLoopReturn

Spec == Init /\ [][Next]_vars

InitQ == script = "task-queue" /\ InitAll

SpecQueue == InitQ /\ [][NextQueue]_vars

InitW == script = "task-splitting" /\ InitAll

SpecWork == InitW /\ [][NextWork]_vars

\* The functions that build task lists, called by a script that runs to
\* completion: a loop that has started keeps taking steps.
SpecCreate ==
    /\ InitW
    /\ [][NextCreate]_vars
    /\ WF_vars(CreateLoopTest)
    /\ WF_vars(CreateLoopPush)

\* Either scheduler script of task-splitting-example.js loaded in the page.
InitSchedulers == script \in {"task-queue", "task-splitting"} /\ InitAll

NextSchedulers == NextQueue \/ NextWork

SpecSchedulers == InitSchedulers /\ [][NextSchedulers]_vars

\* The queue when no callback throws, with a host that keeps the clock
\* running, delivers the posted message and runs the frame callbacks, and a
\* script that runs to completion.
NoThrow == Kinds \ {"throws"}

NextQueueLive ==
    \/ \E d \in Delays, k \in NoThrow : ScheduleTask(now + d, k)
    \/ OnMessage
    \/ PerformTaskEnter
    \/ PerformTaskTest
    \/ PerformTaskBodyK(NoThrow)
    \/ Tick

SpecQueueLive ==
    /\ InitQ
    /\ [][NextQueueLive]_vars
    /\ WF_vars(Tick)
    /\ WF_vars(OnMessage)
    /\ WF_vars(PerformTaskEnter)
    /\ WF_vars(PerformTaskTest)
    /\ WF_vars(PerformTaskBodyK(NoThrow))

\* The script rendering trees in which an element descriptor lacks its type.
NextMalformed ==
    \/ \E el \in MalformedTrees : Render(el)
    \/ IdleCallback
    \/ WorkLoopStep
    \/ WorkLoopReturn

SpecMalformed == Init /\ [][NextMalformed]_vars

\* The driver on its own: one tree is rendered and workLoop is called slice
\* after slice with a deadline, as a test harness of the driver does; these
\* calls consume no idle request of the host.
InvokeWorkLoop ==
    /\ script = "render-dom"
    /\ pc = "idle"
    /\ UNCHANGED idleRequests
    /\ \E k \in 1..MaxK : WorkLoopEnter(k)

RenderOnce(element) == renders = 0 /\ Render(element)

\* The harness applies performUnitOfWork to the unit returned by the last
\* call, outside workLoop; an exception reaches the caller.
InvokePerformUnitOfWork ==
    /\ script = "render-dom"
    /\ pc = "idle"
    /\ renders > 0
    /\ LET c == CallPerformUnitOfWork(fibers, dom, attachLog, nextUnitOfWork)
       IN  /\ fibers' = c.r.fibers
           /\ dom' = c.r.dom
           /\ attachLog' = c.r.attachLog
           /\ nextUnitOfWork' = c.r.next
           /\ visitLog' = IF c.error = "" THEN Append(visitLog, nextUnitOfWork)
                                          ELSE visitLog
           /\ uncaught' = IF c.error = "" THEN uncaught ELSE c.error
    /\ UNCHANGED <<script, now, idleRequests, pc, shouldYield, deadlineK, sliceUnits,
                   renders>>
    /\ UNCHANGED <<queueVars, workVars, createVars>>

NextDriven ==
    \/ \E el \in Trees : RenderOnce(el)
    \/ IdleCallback
    \/ InvokeWorkLoop
    \/ InvokePerformUnitOfWork
    \/ WorkLoopStep
    \/ WorkLoopReturn

SpecDriven == Init /\ [][NextDriven]_vars

\* ------------------------------------------------ properties, render-dom
CurrentTree == fibers[1].props.children[1]

TraversalComplete == renders > 0 /\ nextUnitOfWork = Null

\* Element id of the node attached by the i-th appendChild of the traversal,
\* and of the node it was attached to.
ChildId(i) == dom[attachLog[i].child].attrs.id
ParentId(i) == dom[attachLog[i].parent].attrs.id
AttachIds == [i \in 1..Len(attachLog) |-> ChildId(i)]
VisitIds == [i \in 1..Len(visitLog) |->
                IF visitLog[i] = 1 THEN <<0>> ELSE fibers[visitLog[i]].props.id]

\* The i-th attach put the node on the output node of the element's parent:
\* the container for the root element, otherwise the node created in this
\* traversal for the parent element.
AttachedToParent(i) ==
    IF ChildId(i) = <<>> THEN attachLog[i].parent = Container
    ELSE \E j \in 1..Len(attachLog) :
            /\ attachLog[j].child = attachLog[i].parent
            /\ ChildId(j) = Front(ChildId(i))

\* C1: a completed traversal of a tree of N elements took N+1 calls of
\* performUnitOfWork on N+1 distinct fibers and N attach operations, one per
\* element, each to the output node of the element's parent.
C1_TraversalCounts ==
    TraversalComplete =>
        LET N == Size(CurrentTree) IN
        /\ Len(visitLog) = N + 1
        /\ Cardinality({ visitLog[i] : i \in 1..Len(visitLog) }) = N + 1
        /\ Len(attachLog) = N
        /\ \A n \in 1..N :
              Cardinality({ i \in 1..Len(attachLog) :
                              ChildId(i) = PreOrder(CurrentTree)[n] }) = 1
        /\ \A i \in 1..Len(attachLog) :
              /\ AttachedToParent(i)
              /\ dom[attachLog[i].child].parentNode = attachLog[i].parent
              /\ Len(SelectSeq(dom[attachLog[i].parent].childNodes,
                               LAMBDA c : c = attachLog[i].child)) = 1

C1_Witness ==
    TraversalComplete /\ Size(CurrentTree) = 4 /\ Len(attachLog) = 4

IsProperPrefix(s, t) == Len(s) < Len(t) /\ SubSeq(t, 1, Len(s)) = s

\* C2: the attach operations follow the depth-first pre-order listing of the
\* tree, each on its parent's node, and when a unit of work is about to begin
\* every ancestor of its element is already attached.
C2_PreOrderAttach ==
    renders > 0 =>
        /\ IsPrefix(AttachIds, PreOrder(CurrentTree))
        /\ \A i \in 1..Len(attachLog) : AttachedToParent(i)
        /\ (nextUnitOfWork # Null /\ nextUnitOfWork # 1) =>
              \A n \in 1..Size(CurrentTree) :
                 IsProperPrefix(PreOrder(CurrentTree)[n], fibers[nextUnitOfWork].props.id)
                    => \E i \in 1..Len(attachLog) : ChildId(i) = PreOrder(CurrentTree)[n]

\* div[p[text a], text b]: div -> container, p -> div, a -> p, b -> div.
C2_Witness ==
    /\ TraversalComplete
    /\ AttachIds = << <<>>, <<1>>, <<1, 1>>, <<2>> >>
    /\ [i \in 1..Len(attachLog) |-> ParentId(i)] = << <<0>>, <<>>, <<1>>, <<>> >>

\* C3: when workLoop returns on an exhausted budget with a unit pending, an
\* idle request for workLoop is outstanding with the host.
C3_YieldReRequests ==
    [][(pc = "loop" /\ pc' = "idle" /\ shouldYield /\ nextUnitOfWork # Null)
          => idleRequests' >= 1]_vars

\* C4: after a call of render the pending unit is the seeded root and a
\* workLoop invocation is scheduled with the host.
C4_RenderSchedulesDriver ==
    [][(renders' = renders + 1)
          => /\ nextUnitOfWork' # Null
             /\ fibers'[nextUnitOfWork'].dom = Container
             /\ Len(fibers'[nextUnitOfWork'].props.children) = 1
             /\ idleRequests' >= 1]_vars

\* C5: a workLoop invocation whose deadline is exhausted from the K-th call
\* on performs at most K units, and over all slices the units performed are
\* the pre-order listing of the tree without gap or repetition.
C5_SliceBudget ==
    /\ sliceUnits <= deadlineK
    /\ renders > 0 => IsPrefix(VisitIds, << <<0>> >> \o PreOrder(CurrentTree))

\* A traversal finished in a later slice than the one it started in.
C5_Witness ==
    /\ TraversalComplete
    /\ pc = "loop"
    /\ sliceUnits >= 1
    /\ sliceUnits = deadlineK
    /\ Len(visitLog) > sliceUnits + 1

\* ------------------------------------------- properties, expiring queue
Range(q) == { q[i] : i \in 1..Len(q) }
PosIn(q, x) == CHOOSE i \in 1..Len(q) : q[i] = x
Count(q, x) == Len(SelectSeq(q, LAMBDA y : y = x))
QueuedIds == [i \in 1..Len(takes) |-> takes[i].task]

\* A task that was already due when a later task was submitted is run
\* before that later task.
DueNotOvertaken ==
    \A a \in 1..Len(subs) : \A b \in 1..Len(subs) :
        (a < b /\ subs[a].timeout <= subs[b].at /\ b \in Range(executed))
            => (a \in Range(executed) /\ PosIn(executed, a) < PosIn(executed, b))

\* A task that was due at every offer (never put back) is run before every
\* task submitted after it.
NeverDeferredInOrder ==
    \A a \in 1..Len(subs) : \A b \in 1..Len(subs) :
        (a < b /\ a \notin deferred /\ b \in Range(executed))
            => (a \in Range(executed) /\ PosIn(executed, a) < PosIn(executed, b))

\* No task has run before its expiration was reached.
RunOnlyWhenDue ==
    \A i \in Range(executed) : now >= subs[i].timeout

\* Every offer takes the front of the queue; the task offered is run only
\* when due and otherwise goes behind every other queued task, whose order
\* is kept.
OfferFront ==
    (qpc = "body" /\ qpc' # "body") =>
        \/ /\ executed' = Append(executed, Head(takes).task)
           /\ now >= Head(takes).timeout
           /\ IsPrefix(Tail(takes), takes')
        \/ /\ executed' = executed
           /\ now < Head(takes).timeout
           /\ takes' = Append(Tail(takes), Head(takes))

\* T1 expires now, T2 later, T3 expires now, submitted together.
Scenario132 ==
    /\ Len(subs) = 3
    /\ \A i \in 1..3 : subs[i].at = subs[1].at /\ ~subs[i].inside
    /\ subs[1].timeout = subs[1].at
    /\ subs[2].timeout > subs[1].at
    /\ subs[3].timeout = subs[1].at

C7_QueuedUntilRun ==
    /\ \A i \in 1..Len(takes) :
          /\ takes[i].task \in 1..Len(subs)
          /\ takes[i].timeout = subs[takes[i].task].timeout
    /\ Range(executed) \subseteq 1..Len(subs)
    /\ \A i \in 1..Len(subs) :
          /\ Count(executed, i) <= 1
          /\ Count(QueuedIds, i) = IF i \in Range(executed) THEN 0 ELSE 1

\* A later task has run while an earlier one, deferred, is still queued
\* behind a task submitted after it.
C7_Witness ==
    /\ Len(takes) = 2
    /\ takes[1].task > takes[2].task
    /\ Len(executed) = 1

C9_SingleDriver ==
    /\ port + raf <= 1
    /\ qpc # "idle" => port + raf = 0
    /\ wport + wraf <= 1
    /\ wpc # "idle" => wport + wraf = 0

\* A task submitted by a running callback is queued and the one frame
\* request of the pass is outstanding.
C9_Witness ==
    /\ qpc = "idle" /\ raf = 1
    /\ \E i \in 1..Len(takes) : subs[takes[i].task].inside

\* C10: a driver pass ends with tasks left, the flag set and a frame
\* requested, or with an empty queue and the flag cleared; so outside a pass
\* a non-empty queue has the flag set and a driver trigger outstanding.
C10_NoLostWakeup ==
    /\ [][(qpc # "idle" /\ qpc' = "idle") =>
             \/ Len(takes') > 0 /\ isPerformingTash' /\ raf' = 1
             \/ Len(takes') = 0 /\ ~isPerformingTash']_vars
    /\ []((qpc = "idle" /\ Len(takes) > 0) => (isPerformingTash /\ port + raf >= 1))

\* C11: after a task callback has thrown, the scheduler can still proceed:
\* while tasks are queued outside a driver pass, a driver trigger is
\* outstanding, so that they are run by a later pass.
C11_SurvivesThrow ==
    (/\ qpc = "idle"
     /\ \E i \in Range(executed) : subs[i].kind = "throws"
     /\ Len(takes) > 0)
        => port + raf >= 1

\* C12 as stated: a render call made while a unit of the earlier traversal is
\* pending leaves that unit in the heap, still to be visited.
C12_RenderKeepsPending ==
    [][(renders' = renders + 1 /\ nextUnitOfWork # Null)
          => \E f \in 1..Len(fibers') : fibers'[f] = fibers[nextUnitOfWork]]_vars

\* C12, amended: render replaces whatever traversal is pending.  After every
\* render call the only fiber is a fresh seeded root, which is the pending
\* unit, and the DOM is untouched; everything visited afterwards belongs to
\* the tree of that last call.
C12_RenderReplaces ==
    /\ [][renders' = renders + 1
            => /\ nextUnitOfWork' = 1
               /\ \E el \in Trees : fibers' = << RootFiber(el, Container) >>
               /\ dom' = dom]_vars
    /\ [](renders > 0 => IsPrefix(VisitIds, << <<0>> >> \o PreOrder(CurrentTree)))

\* The second render call came while the root unit of the first was pending
\* (only one slice ever runs), and the traversal that completed built the
\* nodes of the second tree only.
C12_Witness ==
    /\ renders = 2
    /\ TraversalComplete
    /\ Size(CurrentTree) >= 2
    /\ Len(dom) = 1 + Size(CurrentTree)

\* C13: completion is terminal.  Once no next unit was returned, a step that
\* is not a render call changes neither the fibers, the DOM nor the traces,
\* whether it is a driver invocation or a direct performUnitOfWork call; the
\* direct call ends in a TypeError and nothing else, and no unit is pending
\* afterwards.
C13_CompletionTerminal ==
    [][(TraversalComplete /\ renders' = renders)
          => /\ <<fibers, dom, visitLog, attachLog>>' = <<fibers, dom, visitLog, attachLog>>
             /\ nextUnitOfWork' = Null
             /\ sliceUnits' = 0
             /\ (pc = "idle" /\ pc' = "idle") => uncaught' = "TypeError"]_vars

\* After completion performUnitOfWork was called directly and failed, and
\* the driver was invoked again and is about to return without a unit.
C13_Witness ==
    /\ TraversalComplete
    /\ Len(visitLog) >= 3
    /\ uncaught = "TypeError"
    /\ pc = "loop"
    /\ sliceUnits = 0

\* C14: a unit of work whose element descriptor has no type fails fast: an
\* error reaches the caller and no output node is constructed for the fiber.
C14_FailFast ==
    \A i \in 1..Len(visitLog) :
        (visitLog[i] # 1 /\ fibers[visitLog[i]].type = "")
            => (uncaught # "" /\ fibers[visitLog[i]].dom = Null)

RECURSIVE SiblingChain(_, _, _)
SiblingChain(fs, f, n) ==
    IF f = Null \/ n = 0 THEN <<>>
    ELSE <<f>> \o SiblingChain(fs, fs[f].sibling, n - 1)

ChildFibers(p) == SiblingChain(fibers, fibers[p].child, Len(fibers))

\* C16: after every performUnitOfWork call the fibers are a well-linked tree.
\* The child link of a performed fiber leads to the fiber of its first child
\* element, the sibling link of the fiber of child i-1 to the fiber of child
\* i, the last one has no sibling, and all of them name the fiber as parent;
\* a fiber not yet performed has no child; every fiber but the root is in the
\* child list of exactly one fiber, its parent; and a constructed node has
\* been attached at most once, to the node of the parent fiber.
C16_WellLinked ==
    /\ \A p \in 1..Len(fibers) :
          LET kids == ChildFibers(p)
              els  == fibers[p].props.children
          IN  IF p \in Range(visitLog)
              THEN /\ Len(kids) = Len(els)
                   /\ \A i \in 1..Len(kids) :
                         /\ fibers[kids[i]].parent = p
                         /\ fibers[kids[i]].type = els[i].type
                         /\ fibers[kids[i]].props = els[i].props
                         /\ (i = Len(kids)) => fibers[kids[i]].sibling = Null
              ELSE fibers[p].child = Null /\ kids = <<>>
    /\ Len(fibers) > 0 => fibers[1].parent = Null /\ fibers[1].sibling = Null
    /\ \A f \in 2..Len(fibers) :
          /\ { p \in 1..Len(fibers) : f \in Range(ChildFibers(p)) } = { fibers[f].parent }
          /\ Cardinality({ i \in 1..Len(ChildFibers(fibers[f].parent)) :
                              ChildFibers(fibers[f].parent)[i] = f }) = 1
    /\ \A f \in 2..Len(fibers) :
          LET at == { i \in 1..Len(attachLog) : attachLog[i].child = fibers[f].dom }
          IN  /\ fibers[f].dom = Null => f \notin Range(visitLog)
              /\ fibers[f].dom # Null =>
                    /\ Cardinality(at) = 1
                    /\ \A i \in at : attachLog[i].parent = fibers[fibers[f].parent].dom
                    /\ dom[fibers[f].dom].parentNode = fibers[fibers[f].parent].dom
                    /\ Cardinality({ j \in 1..Len(dom[fibers[fibers[f].parent].dom].childNodes) :
                          dom[fibers[fibers[f].parent].dom].childNodes[j] = fibers[f].dom }) = 1

\* A fiber with several children has been performed and all of its children
\* have been attached.
C16_Witness ==
    /\ TraversalComplete
    /\ \E p \in 2..Len(fibers) : Len(ChildFibers(p)) >= 2
    /\ Len(attachLog) >= 3

\* C17: a call of createTasksByTime or createAdaptiveTasks with start <= end
\* terminates: it leaves its while loop and returns the task list.
C17_CreationTerminates ==
    (cfn \in {"createTasksByTime", "createAdaptiveTasks"} /\ cstart <= cend)
        ~> (cpc = "returned")

\* The list returned by a call createTasksByChunk(start, end, chunkSize)
\* with start <= end.
ChunkCallReturned ==
    cfn = "createTasksByChunk" /\ cpc = "returned" /\ cstart <= cend

\* C19: createTasksByChunk(start, end, chunkSize) with start <= end and
\* chunkSize >= 1 returns ceil((end - start + 1) / chunkSize) tasks; their
\* ranges are contiguous and ascending from start to end, each of at most
\* chunkSize numbers, and every integer of [start, end] is processed by
\* exactly one task and no other number by any.
C19_ChunkPartition ==
    ChunkCallReturned =>
        /\ Len(clist) = (cend - cstart + 1 + csize - 1) \div csize
        /\ clist[1].chunkStart = cstart
        /\ clist[Len(clist)].chunkEnd = cend
        /\ \A i \in 1..Len(clist) :
              /\ clist[i].chunkStart <= clist[i].chunkEnd
              /\ Cardinality(ChunkNumbers(clist[i])) <= csize
              /\ i < Len(clist) => clist[i + 1].chunkStart = clist[i].chunkEnd + 1
        /\ \A x \in cstart..cend :
              Cardinality({ i \in 1..Len(clist) : x \in ChunkNumbers(clist[i]) }) = 1
        /\ \A i \in 1..Len(clist) : ChunkNumbers(clist[i]) \subseteq cstart..cend

\* A range that the chunk size does not divide: the last task is shorter.
C19_Witness ==
    /\ ChunkCallReturned
    /\ csize >= 2
    /\ Len(clist) >= 2
    /\ Cardinality(ChunkNumbers(clist[Len(clist)])) < csize

\* The tree below node n of a DOM, without the handles: kind, name and
\* properties of the node and the trees of its children, in order.
RECURSIVE Shape(_, _)
Shape(d, n) ==
    [nodeType |-> d[n].nodeType, tagName |-> d[n].tagName, attrs |-> d[n].attrs,
     children |-> [i \in 1..Len(d[n].childNodes) |-> Shape(d, d[n].childNodes[i])]]

\* Depth-first post-order listing of the element ids of a tree.
RECURSIVE PostOrder(_), PostOrderAll(_)
PostOrder(el) == PostOrderAll(el.props.children) \o <<el.props.id>>
PostOrderAll(els) ==
    IF els = <<>> THEN <<>> ELSE PostOrder(Head(els)) \o PostOrderAll(Tail(els))

\* The recursive render of the current tree into a fresh container.
NaiveResult == NaiveRender(<< ContainerNode >>, <<>>, CurrentTree, Container)

NaiveAttachIds ==
    [i \in 1..Len(NaiveResult.log) |-> NaiveResult.dom[NaiveResult.log[i].child].attrs.id]

\* C18: for the same tree and container the completed fiber traversal leaves
\* the output tree that the recursive render leaves: the same nodes with the
\* same parent, children and child order.  The order of the attach calls
\* differs: the recursive render attaches a node after its whole subtree
\* (post-order), the fiber traversal before its children (pre-order).
C18_SameOutputTree ==
    TraversalComplete =>
        /\ Shape(dom, Container) = Shape(NaiveResult.dom, Container)
        /\ NaiveAttachIds = PostOrder(CurrentTree)
        /\ AttachIds = PreOrder(CurrentTree)

\* A completed traversal of a tree for which the two attach orders differ
\* and a node has several children.
C18_Witness ==
    /\ TraversalComplete
    /\ AttachIds # NaiveAttachIds
    /\ \E n \in 2..Len(dom) : Len(dom[n].childNodes) >= 2

\* C20: a workLoop invocation that starts with a pending unit performs at
\* least one unit before it returns, even when the deadline reports less
\* than 1 ms from its first call on: before the first unit shouldYield is
\* false, and an invocation returns without a unit only when none is pending.
C20_AtLeastOneUnit ==
    /\ []((pc = "loop" /\ sliceUnits = 0) => ~shouldYield)
    /\ [][(pc = "loop" /\ pc' = "idle") => (sliceUnits >= 1 \/ nextUnitOfWork = Null)]_vars

\* The deadline was exhausted on entry, one unit has been performed all the
\* same, and further units are left for a later slice.
C20_Witness ==
    /\ pc = "loop"
    /\ deadlineK = 1
    /\ sliceUnits = 1
    /\ shouldYield
    /\ nextUnitOfWork # Null

====
